---------------------------- MODULE Spec2Model ----------------------------
(***************************************************************************)
(* A model of the chunk -> index -> query pipeline of rag-eval-lab:        *)
(*   src/src/chunk_short.py        chunk_text and the chunking stage       *)
(*   src/src/embed_index_short.py  the index build                         *)
(*   src/src/retrieve_short_demo.py the retrieval with deduplication       *)
(* and of the upload of the documents to BigQuery:                         *)
(*   src/src/bq_upload_docs_short.py                                       *)
(* Texts are sequences of one-character strings; offsets are 0-based and   *)
(* windows are half-open, as in the Python source.                         *)
(***************************************************************************)
EXTENDS Integers, Sequences, FiniteSets, TLC

VARIABLES
    ct,        \* the frame of one chunk_text call (chunk_short.py:25-64)
    inp,       \* data/processed/docs_short.jsonl: None, or Some(the documents)
    limit_docs,\* the argument of chunk_short.main: None, or Some(a number)
    m,         \* the frame of chunk_short.main: pc, i, rows
    out,       \* data/processed/chunks_short.parquet: None, or Some(the file)
    LIMIT_CHUNKS, \* embed_index_short.py:33: None, or Some(a number)
    faiss_file,\* data/processed/index_short/faiss.index: None, or Some(the file)
    meta_file, \* data/processed/index_short/chunks_meta.parquet: None, or Some
    build,     \* the frame of embed_index_short.main
    retrieve,  \* the frame of retrieve_short_demo.main
    bq_src,    \* the file bq_upload_docs_short.py reads: None, or Some(records)
    bq_table,  \* the BigQuery table docs_short: None, or Some(its rows)
    upload     \* the frame of bq_upload_docs_short.main

\* The state of chunk_short.py but for the file it writes, and the state of the
\* index build and of the retrieval but for the file the build reads.
chunkSide == <<ct, inp, limit_docs, m>>
indexSide == <<LIMIT_CHUNKS, faiss_file, meta_file, build, retrieve>>
uploadSide == <<bq_src, bq_table, upload>>

vars ==
    <<ct, inp, limit_docs, m, out, LIMIT_CHUNKS, faiss_file, meta_file, build,
      retrieve, bq_src, bq_table, upload>>

---------------------------------------------------------------------------
(* Bounds of the model *)

\* Longest text of the exhaustively enumerated chunk_text calls.
MaxLen == 4
\* Largest chunk_size of the enumerated calls (0 is included: it is not rejected).
MaxChunkSize == 3
\* Largest overlap of the enumerated calls (-1 is included: it is not rejected).
MaxOverlap == 3
\* Most documents in the input file of the chunking stage.
MaxDocs == 2
\* Largest k of a retrieval.
MaxK == 2
\* Largest max_rows of an upload; the input files have up to one record more.
MaxRows == 2
\* Largest batch_size of an upload.
MaxBatch == 2
\* Most runs of the upload that are followed.
MaxRuns == 2
\* Largest candidate_multiplier of a retrieval.
MaxMultiplier == 2
\* Largest LIMIT_CHUNKS the index build is configured with.
MaxLimitChunks == 2

\* Iterations after which a chunk_text loop that makes no progress is cut off.
\* A loop that makes progress needs at most Len(text) iterations.
MaxIter(n) == n + 2

---------------------------------------------------------------------------
(* Program constants *)

\* chunk_short.py:21-22
CHUNK_SIZE == 800
OVERLAP == 150

---------------------------------------------------------------------------
(* Python helpers *)

\* None, and a value that is not None.
None == <<>>
Some(v) == <<v>>

Min(a, b) == IF a <= b THEN a ELSE b
Max(a, b) == IF a >= b THEN a ELSE b

\* The characters str.strip() removes (those of them the texts here use).
Whitespace == {" ", "\n"}

\* s[a:b] for 0 <= a, 0 <= b: Python clamps b to len(s); an empty range is "".
Slice(s, a, b) == SubSeq(s, a + 1, Min(b, Len(s)))

RECURSIVE LStrip(_)
LStrip(s) ==
    IF s # <<>> /\ Head(s) \in Whitespace THEN LStrip(Tail(s)) ELSE s

RECURSIVE RStrip(_)
RStrip(s) ==
    IF s # <<>> /\ s[Len(s)] \in Whitespace
    THEN RStrip(SubSeq(s, 1, Len(s) - 1))
    ELSE s

\* A plausible slip: the text is windowed as given, not stripped.
StripForgotten(s) == s

\* str.strip(), chunk_short.py:38
Strip(s) == RStrip(LStrip(s))

---------------------------------------------------------------------------
(* chunk_text, chunk_short.py:25-64 *)

\* A plausible slip: the window end is not clamped to the text length.
WindowEndUnclamped(start, chunk_size, n) == start + chunk_size

\* chunk_short.py:50
WindowEnd(start, chunk_size, n) == Min(start + chunk_size, n)

\* A plausible slip: one character more than the overlap is repeated.
NextStartOffByOne(end, overlap) == Max(0, end - overlap - 1)

\* A plausible slip: the overlap is added instead of subtracted.
NextStartSignSlip(end, overlap) == Max(0, end + overlap)

\* chunk_short.py:62
NextStart(end, overlap) == Max(0, end - overlap)

\* A plausible slip: the slice runs one character past the window.
ChunkSliceOffByOne(text, start, end) == Slice(text, start, end + 1)

\* chunk_short.py:51
ChunkSlice(text, start, end) == Slice(text, start, end)

\* The frame of a call that has not run yet: the arguments are bound, the locals
\* are not (start, n and chunks are given their first values by the entry step).
\* `arg` is the text as the caller passed it (the callee rebinds its own `text`
\* to the stripped text; the caller still holds what it passed).
CallFrame(text, chunk_size, overlap) ==
    [pc |-> "entry", arg |-> text, text |-> text, chunk_size |-> chunk_size,
     overlap |-> overlap, start |-> 0, n |-> 0, chunks |-> <<>>]

\* The frame when no call is in progress.
NoCall == [CallFrame(<<>>, CHUNK_SIZE, OVERLAP) EXCEPT !.pc = "idle"]

\* chunk_short.py:38-46: strip, return [] for an empty text, else set up the loop.
ChunkTextEntry(f) ==
    LET text == Strip(f.text) IN
    IF text = <<>>
    THEN [f EXCEPT !.pc = "returned", !.text = text, !.chunks = <<>>]
    ELSE [f EXCEPT !.pc = "while", !.text = text, !.chunks = <<>>,
                   !.start = 0, !.n = Len(text)]

\* chunk_short.py:49-62: the loop test and one pass through the loop body.
ChunkTextIterate(f) ==
    IF ~(f.start < f.n)
    THEN [f EXCEPT !.pc = "returned"]
    ELSE LET end == WindowEnd(f.start, f.chunk_size, f.n)
             chunk == ChunkSlice(f.text, f.start, end)
             chunks == Append(f.chunks, <<f.start, end, chunk>>)
         IN  IF end = f.n
             THEN [f EXCEPT !.pc = "returned", !.chunks = chunks]
             ELSE [f EXCEPT !.chunks = chunks, !.start = NextStart(end, f.overlap)]

\* One step of a call.
ChunkTextStep(f) ==
    IF f.pc = "entry" THEN ChunkTextEntry(f) ELSE ChunkTextIterate(f)

\* The value a call returns, for the calls that return.
RECURSIVE ChunkTextRun(_)
ChunkTextRun(f) ==
    IF f.pc = "returned" THEN f.chunks ELSE ChunkTextRun(ChunkTextStep(f))

\* chunk_text(text, chunk_size, overlap) as a value.
chunk_text(text, chunk_size, overlap) ==
    ChunkTextRun(CallFrame(text, chunk_size, overlap))

---------------------------------------------------------------------------
(* Tables: a DataFrame and its Parquet file *)

Range(s) == {s[p] : p \in 1..Len(s)}

\* pd.DataFrame(rows), chunk_short.py:113: the columns are the keys of the row
\* dicts in their order; a frame built from no rows has no columns.
DataFrame(columns, rows) ==
    [columns |-> IF rows = <<>> THEN <<>> ELSE columns, rows |-> rows]

\* A plausible slip: the rows are written in reverse order.
ToParquetReversed(df) ==
    [schema |-> df.columns,
     cols |-> [c \in Range(df.columns) |->
                 [p \in 1..Len(df.rows) |-> df.rows[Len(df.rows) + 1 - p][c]]]]

\* df.to_parquet(path, index=False): the file holds the schema and one array per
\* column; the frame's index is not stored.
ToParquet(df) ==
    [schema |-> df.columns,
     cols |-> [c \in Range(df.columns) |->
                 [p \in 1..Len(df.rows) |-> df.rows[p][c]]]]

\* pd.read_parquet(path): the rows are rebuilt from the column arrays.
ReadParquet(file) ==
    LET nrows == IF file.schema = <<>> THEN 0 ELSE Len(file.cols[file.schema[1]])
    IN  [columns |-> file.schema,
         rows |-> [p \in 1..nrows |-> [c \in Range(file.schema) |-> file.cols[c][p]]]]

---------------------------------------------------------------------------
(* The chunking stage, chunk_short.py:67-123 *)

\* dict.get(field, default)
DocGet(doc, field, default) ==
    IF field \in DOMAIN doc THEN doc[field] ELSE default

\* The keys of a chunk row in the order the dict literal gives them,
\* chunk_short.py:101-110.
RowColumns ==
    <<"chunk_id", "doc_id", "title", "chunk_index", "char_start", "char_end",
      "text", "source">>

\* A plausible slip: the chunk index is counted from 1.
ChunkIdOneBased(doc_id, j) == doc_id \o "_c" \o ToString(j + 1)

\* f"{doc_id}_c{j}", chunk_short.py:102
ChunkId(doc_id, j) == doc_id \o "_c" \o ToString(j)

\* chunk_short.py:93-111: the rows of one document, from the chunks of its text;
\* enumerate counts them from 0.
DocRows(doc, chunks) ==
    [q \in 1..Len(chunks) |->
        LET j == q - 1 IN
        [chunk_id    |-> ChunkId(doc.doc_id, j),
         doc_id      |-> doc.doc_id,
         title       |-> DocGet(doc, "title", Some("")),
         chunk_index |-> j,
         char_start  |-> chunks[q][1],
         char_end    |-> chunks[q][2],
         text        |-> chunks[q][3],
         source      |-> DocGet(doc, "source", "unknown")]]

\* chunk_short.py:88: the loop over the lines goes on to line i (0-based).
MoreLines(docs, i, limit) ==
    i < Len(docs) /\ ~(limit # None /\ i >= limit[1])

\* The frame of main before it runs, and when no run is in progress.
MainFrame == [pc |-> "start", i |-> 0, rows |-> <<>>]
NoMain == [MainFrame EXCEPT !.pc = "idle"]

\* The rows main collects from line i on, and the whole run as a value.
RECURSIVE MainRows(_, _, _)
MainRows(docs, i, limit) ==
    IF MoreLines(docs, i, limit)
    THEN DocRows(docs[i + 1],
                 chunk_text(DocGet(docs[i + 1], "text", <<>>), CHUNK_SIZE, OVERLAP))
         \o MainRows(docs, i + 1, limit)
    ELSE <<>>

\* The file a run of main writes.
MainOutput(docs, limit) ==
    ToParquet(DataFrame(RowColumns, MainRows(docs, 0, limit)))

---------------------------------------------------------------------------
(* Inputs *)

Alphabet == {" ", "a", "b"}

SmallTexts == UNION {[1..len -> Alphabet] : len \in 0..MaxLen}

\* "abcdefghij"
Abcdefghij == <<"a", "b", "c", "d", "e", "f", "g", "h", "i", "j">>

\* Texts longer than one chunk, none of their characters whitespace.
LongText(len) == [p \in 1..len |-> IF p % 7 = 0 THEN "b" ELSE "a"]
Text2000 == LongText(2000)

ChunkCalls ==
    { CallFrame(t, c, o) : t \in SmallTexts, c \in 0..MaxChunkSize,
                           o \in (-1)..MaxOverlap }
    \cup { CallFrame(Abcdefghij, 5, 2), CallFrame(Text2000, CHUNK_SIZE, OVERLAP) }

\* The documents the input file is made of. Two share a doc_id, which the stage
\* does not forbid; one has neither title, text nor source; one has a null title.
DocPool ==
    { [doc_id |-> "d1", title |-> Some("T1"), source |-> "squad_v2",
       text |-> <<" ", "\n">> \o Text2000 \o <<" ">>],
      [doc_id |-> "d2", title |-> Some("T1"), source |-> "squad_v2",
       text |-> <<" ", "a", " ", "b", "\n">>],
      [doc_id |-> "d1", title |-> Some("T2"), source |-> "squad_v2",
       text |-> <<"b">>],
      [doc_id |-> "d3"],
      [doc_id |-> "d1_c0", title |-> Some(""), source |-> "squad_v2",
       text |-> LongText(CHUNK_SIZE)],
      [doc_id |-> "d4", title |-> None, text |-> <<" ", "\n", " ">>],
      [doc_id |-> "d5", title |-> Some("T2"), source |-> "squad_v2",
       text |-> LongText(CHUNK_SIZE + 1)] }

DocFiles == UNION {[1..len -> DocPool] : len \in 0..MaxDocs}

---------------------------------------------------------------------------
(* The embedding model and the FAISS index *)

Count(t, ch) == Cardinality({p \in 1..Len(t) : t[p] = ch})

\* The components of an embedding are multiples of 1/EmbedScale.
EmbedScale == 4

\* SentenceTransformer.encode of one text, embed_index_short.py:78-87 and
\* retrieve_short_demo.py:133-137: the model is a fixed function from a text to
\* a vector of a fixed dimension. Here the vector gives the shares of the
\* letters a and b in the text.
Embed(t) ==
    <<(Count(t, "a") * EmbedScale) \div Len(t),
      (Count(t, "b") * EmbedScale) \div Len(t)>>

\* model.encode(texts): one vector per text, in the order of the texts.
Encode(texts) == [p \in 1..Len(texts) |-> Embed(texts[p])]

\* faiss.IndexFlatIP(dim), embed_index_short.py:95: d, ntotal and the vectors
\* stored one after the other.
IndexFlatIP(dim) == [d |-> dim, ntotal |-> 0, xb |-> <<>>]

RECURSIVE Flatten(_)
Flatten(vectors) ==
    IF vectors = <<>> THEN <<>> ELSE Head(vectors) \o Flatten(Tail(vectors))

Reverse(s) == [p \in 1..Len(s) |-> s[Len(s) + 1 - p]]

\* A plausible slip: the vectors are added in reverse order.
IndexAddReversed(index, vectors) ==
    [index EXCEPT !.ntotal = index.ntotal + Len(vectors),
                  !.xb = index.xb \o Flatten(Reverse(vectors))]

\* index.add(embeddings), embed_index_short.py:99: the vectors are appended in
\* the order given; a vector's row id is its position.
IndexAdd(index, vectors) ==
    [index EXCEPT !.ntotal = index.ntotal + Len(vectors),
                  !.xb = index.xb \o Flatten(vectors)]

\* The vector of row id (0-based) of an index.
Reconstruct(index, id) ==
    [p \in 1..index.d |-> index.xb[id * index.d + p]]

\* faiss.write_index, embed_index_short.py:104: the type tag, d, ntotal and the
\* vectors.
WriteIndex(index) ==
    <<"IxFI", index.d, index.ntotal>> \o index.xb

\* faiss.read_index, retrieve_short_demo.py:114
ReadIndex(file) ==
    [d |-> file[2], ntotal |-> file[3], xb |-> SubSeq(file, 4, Len(file))]

\* The inner product of two vectors.
RECURSIVE Dot(_, _)
Dot(u, v) ==
    IF u = <<>> THEN 0 ELSE Head(u) * Head(v) + Dot(Tail(u), Tail(v))

\* The score FAISS gives a slot it has no neighbour for (the row id is -1).
NoNeighborScore == -1000000

\* The orders in which an exact inner-product search may rank all rows: by
\* descending score; the order among rows of equal score is FAISS's own.
Rankings(index, q_vec) ==
    LET ids == 0..(index.ntotal - 1)
        score(id) == Dot(Reconstruct(index, id), q_vec)
    IN  { o \in [1..index.ntotal -> ids] :
            /\ \A p, q \in 1..index.ntotal : p # q => o[p] # o[q]
            /\ \A p \in 1..(index.ntotal - 1) : score(o[p]) >= score(o[p + 1]) }

\* index.search(q_vec, k), retrieve_short_demo.py:147-149, for one ranking: the
\* scores and the row ids of the k best rows; the slots beyond the rows of the
\* index hold the row id -1.
SearchResult(index, q_vec, k, order) ==
    [scores |-> [p \in 1..k |->
                    IF p <= index.ntotal
                    THEN Dot(Reconstruct(index, order[p]), q_vec)
                    ELSE NoNeighborScore],
     idxs |-> [p \in 1..k |-> IF p <= index.ntotal THEN order[p] ELSE -1]]

---------------------------------------------------------------------------
(* The index build, embed_index_short.py:36-115 *)

\* embed_index_short.py:109
meta_cols ==
    <<"chunk_id", "doc_id", "source", "title", "chunk_index", "char_start",
      "char_end", "text">>

\* df.iloc[:limit], embed_index_short.py:59-60
Truncate(df, limit) ==
    IF limit = None THEN df
    ELSE [df EXCEPT !.rows = SubSeq(df.rows, 1, Min(limit[1], Len(df.rows)))]

\* df["text"].astype(str).tolist(), embed_index_short.py:64: the texts are
\* strings already.
Texts(df) == [p \in 1..Len(df.rows) |-> df.rows[p].text]

\* df[meta_cols].copy(), embed_index_short.py:110
Project(df, columns) ==
    [columns |-> columns,
     rows |-> [p \in 1..Len(df.rows) |->
                 [c \in Range(columns) |-> df.rows[p][c]]]]

\* The frame of the build before it runs; its locals are unbound.
BuildFrame ==
    [pc |-> "start", df |-> None, texts |-> None, embeddings |-> None,
     index |-> None]
NoBuild == [BuildFrame EXCEPT !.pc = "idle"]

---------------------------------------------------------------------------
(* The retrieval, retrieve_short_demo.py:75-210 *)

\* str(row.get(dedupe_field, "")), retrieve_short_demo.py:163: the number
\* columns give their decimal digits, a null gives "None", a string itself.
KeyOf(row, field) ==
    IF field \notin DOMAIN row THEN ""
    ELSE IF field \in {"chunk_index", "char_start", "char_end"}
         THEN ToString(row[field])
    ELSE IF field = "title"
         THEN (IF row[field] = None THEN "None" ELSE row[field][1])
    ELSE row[field]

\* The frame of a retrieval: its arguments are bound, its locals are not.
RetrieveFrame(query, k, dedupe_field, candidate_multiplier) ==
    [pc |-> "check_index", query |-> query, k |-> k,
     dedupe_field |-> dedupe_field,
     candidate_multiplier |-> candidate_multiplier,
     index |-> None, meta |-> None, q_vec |-> None, k_candidates |-> 0,
     scores |-> <<>>, idxs |-> <<>>, pos |-> 0,
     seen_keys |-> {}, results |-> <<>>]
NoRetrieve == [RetrieveFrame(<<>>, 1, "doc_id", 1) EXCEPT !.pc = "idle"]

---------------------------------------------------------------------------
(* The upload to BigQuery, bq_upload_docs_short.py *)

\* ensure_table, bq_upload_docs_short.py:37-61: the table as it is if it
\* exists, a new table of no rows if it does not.
ensure_table(table) == IF table = None THEN Some(<<>>) ELSE table

\* A plausible slip: the table is not truncated.
truncate_table_skipped(table) == table

\* truncate_table, bq_upload_docs_short.py:64-88: TRUNCATE TABLE, waited for:
\* the table has no rows when the call returns.
truncate_table(table) == Some(<<>>)

\* bq_upload_docs_short.py:121-127: the records of the first max_rows lines.
ReadRows(file, max_rows) == SubSeq(file, 1, Min(max_rows, Len(file)))

\* rows[start : start + batch_size], bq_upload_docs_short.py:133
Batch(rows, start, batch_size) == Slice(rows, start, start + batch_size)

\* client.insert_rows_json(full_table_id, batch) without errors,
\* bq_upload_docs_short.py:136: the rows are added to the table.
InsertRowsJson(table, batch) == Some(table[1] \o batch)

\* The frame of main(max_rows, batch_size) before it runs; runs counts the
\* runs started so far.
UploadFrame(max_rows, batch_size, runs) ==
    [pc |-> "start", max_rows |-> max_rows, batch_size |-> batch_size,
     rows |-> <<>>, start |-> 0, total_inserted |-> 0, runs |-> runs]
NoUpload == [UploadFrame(0, 1, 0) EXCEPT !.pc = "idle"]

\* No upload has run; there is no input file and no table.
UploadIdle ==
    /\ bq_src = None
    /\ bq_table = None
    /\ upload = NoUpload

\* Neither the build nor a retrieval has run, and there are no index files.
IndexSideIdle ==
    /\ LIMIT_CHUNKS = None
    /\ faiss_file = None
    /\ meta_file = None
    /\ build = NoBuild
    /\ retrieve = NoRetrieve

---------------------------------------------------------------------------
(* The specification of chunk_short.py: a direct call of chunk_text, or a run *)
(* of main over an input file                                                *)

InitCall ==
    /\ ct \in ChunkCalls
    /\ inp = None
    /\ limit_docs = None
    /\ m = NoMain
    /\ out = None
    /\ IndexSideIdle
    /\ UploadIdle

InitMain ==
    /\ ct = NoCall
    /\ inp \in {None} \cup {Some(docs) : docs \in DocFiles}
    /\ limit_docs \in {None} \cup {Some(l) : l \in 0..MaxDocs}
    /\ m = MainFrame
    /\ out = None
    /\ IndexSideIdle
    /\ UploadIdle

InitChunk == InitCall \/ InitMain

\* chunk_short.py:38-46
CT_Entry ==
    /\ ct.pc = "entry"
    /\ ct' = ChunkTextEntry(ct)
    /\ UNCHANGED <<inp, limit_docs, m, out>>
    /\ UNCHANGED indexSide
    /\ UNCHANGED uploadSide

\* chunk_short.py:49-62
CT_Iterate ==
    /\ ct.pc = "while"
    /\ Len(ct.chunks) < MaxIter(ct.n)
    /\ ct' = ChunkTextIterate(ct)
    /\ UNCHANGED <<inp, limit_docs, m, out>>
    /\ UNCHANGED indexSide
    /\ UNCHANGED uploadSide

\* chunk_short.py:79-84: the assertion that the input exists.
Main_Open ==
    /\ m.pc = "start"
    /\ m' = [m EXCEPT !.pc = IF inp = None THEN "AssertionError" ELSE "for"]
    /\ UNCHANGED <<ct, inp, limit_docs, out>>
    /\ UNCHANGED indexSide
    /\ UNCHANGED uploadSide

\* chunk_short.py:86-98: the next line, up to the call of chunk_text.
Main_NextLine ==
    /\ m.pc = "for"
    /\ IF MoreLines(inp[1], m.i, limit_docs)
       THEN /\ ct' = CallFrame(DocGet(inp[1][m.i + 1], "text", <<>>),
                               CHUNK_SIZE, OVERLAP)
            /\ m' = [m EXCEPT !.pc = "chunking"]
       ELSE /\ m' = [m EXCEPT !.pc = "write"]
            /\ ct' = ct
    /\ UNCHANGED <<inp, limit_docs, out>>
    /\ UNCHANGED indexSide
    /\ UNCHANGED uploadSide

\* chunk_short.py:98-111: the rows of the chunks the call returned.
Main_Rows ==
    /\ m.pc = "chunking"
    /\ ct.pc = "returned"
    /\ m' = [m EXCEPT !.pc = "for", !.i = m.i + 1,
                      !.rows = m.rows \o DocRows(inp[1][m.i + 1], ct.chunks)]
    /\ ct' = NoCall
    /\ UNCHANGED <<inp, limit_docs, out>>
    /\ UNCHANGED indexSide
    /\ UNCHANGED uploadSide

\* chunk_short.py:113-123: the table is written; the statistics that follow
\* read the column doc_id, which a table of no rows does not have.
Main_Write ==
    /\ m.pc = "write"
    /\ out' = Some(ToParquet(DataFrame(RowColumns, m.rows)))
    /\ m' = [m EXCEPT !.pc = IF m.rows = <<>> THEN "KeyError" ELSE "done"]
    /\ UNCHANGED <<ct, inp, limit_docs>>
    /\ UNCHANGED indexSide
    /\ UNCHANGED uploadSide

NextChunk ==
    \/ CT_Entry
    \/ CT_Iterate
    \/ Main_Open
    \/ Main_NextLine
    \/ Main_Rows
    \/ Main_Write

SpecChunk == InitChunk /\ [][NextChunk]_vars

\* The interpreter runs a program that can take a step.
SpecChunkFair == SpecChunk /\ WF_vars(NextChunk)

---------------------------------------------------------------------------
(* Inputs of the index build and of the retrieval *)

\* The input files the chunking stage is run over before an index build: a
\* document of two chunks and one of one chunk with the same title; three
\* documents of one chunk each with a title, a null title and no title; one
\* document; no document.
IndexDocFiles ==
    LET dA == [doc_id |-> "d1", title |-> Some("T1"), source |-> "squad_v2",
               text |-> LongText(CHUNK_SIZE + 1)]
        dB == [doc_id |-> "d2", title |-> Some("T1"), source |-> "squad_v2",
               text |-> <<" ", "a", " ", "b", "\n">>]
        dC == [doc_id |-> "d4", title |-> None, text |-> <<"b">>]
        dD == [doc_id |-> "d3", text |-> <<"a">>]
    IN  { <<dA, dB>>, <<dB, dC, dD>>, <<dB>>, <<>> }

\* The chunk tables chunk_short.main writes for them.
ChunkTables == {MainOutput(docs, None) : docs \in IndexDocFiles}

Queries == {<<"a">>, <<"b">>}

\* "url" is a field of the documents that the chunk rows do not carry.
DedupeFields == {"doc_id", "title", "chunk_index", "url"}

---------------------------------------------------------------------------
(* The actions of the index build and of the retrieval *)

InitIndex ==
    /\ ct = NoCall
    /\ inp = None
    /\ limit_docs = None
    /\ m = NoMain
    /\ out = None
    /\ LIMIT_CHUNKS \in {None} \cup {Some(l) : l \in 0..MaxLimitChunks}
    /\ faiss_file = None
    /\ meta_file = None
    /\ build = NoBuild
    /\ retrieve = NoRetrieve
    /\ UploadIdle

\* A run of the build is between its first and its last step.
BuildRunning == build.pc \in {"encode", "index", "write_index", "write_meta"}

\* A run of chunk_short.main, as one step: it writes the chunk table.
ChunkStage ==
    /\ \E table \in ChunkTables : out' = Some(table)
    /\ UNCHANGED chunkSide
    /\ UNCHANGED indexSide
    /\ UNCHANGED uploadSide

\* embed_index_short.py:46-64: a run starts; the chunk table is loaded and cut
\* to LIMIT_CHUNKS. A table written from no rows has no column "text".
B_Load ==
    /\ ~BuildRunning
    /\ IF out = None
       THEN build' = [BuildFrame EXCEPT !.pc = "FileNotFoundError"]
       ELSE LET df == ReadParquet(out[1]) IN
            IF "text" \notin Range(df.columns)
            THEN build' = [BuildFrame EXCEPT !.pc = "KeyError", !.df = Some(df)]
            ELSE LET cut == Truncate(df, LIMIT_CHUNKS) IN
                 build' = [BuildFrame EXCEPT !.pc = "encode", !.df = Some(cut),
                                             !.texts = Some(Texts(cut))]
    /\ UNCHANGED <<out, LIMIT_CHUNKS, faiss_file, meta_file, retrieve>>
    /\ UNCHANGED chunkSide
    /\ UNCHANGED uploadSide

\* embed_index_short.py:69-87
B_Encode ==
    /\ build.pc = "encode"
    /\ build' = [build EXCEPT !.pc = "index",
                              !.embeddings = Some(Encode(build.texts[1]))]
    /\ UNCHANGED <<out, LIMIT_CHUNKS, faiss_file, meta_file, retrieve>>
    /\ UNCHANGED chunkSide
    /\ UNCHANGED uploadSide

\* embed_index_short.py:94-101: the array of no embeddings has one axis only,
\* so reading its second raises.
B_Index ==
    /\ build.pc = "index"
    /\ LET embeddings == build.embeddings[1] IN
       IF embeddings = <<>>
       THEN build' = [build EXCEPT !.pc = "IndexError"]
       ELSE LET dim == Len(embeddings[1]) IN
            build' = [build EXCEPT
                        !.pc = "write_index",
                        !.index = Some(IndexAdd(IndexFlatIP(dim), embeddings))]
    /\ UNCHANGED <<out, LIMIT_CHUNKS, faiss_file, meta_file, retrieve>>
    /\ UNCHANGED chunkSide
    /\ UNCHANGED uploadSide

\* embed_index_short.py:104-105
B_WriteIndex ==
    /\ build.pc = "write_index"
    /\ faiss_file' = Some(WriteIndex(build.index[1]))
    /\ build' = [build EXCEPT !.pc = "write_meta"]
    /\ UNCHANGED <<out, LIMIT_CHUNKS, meta_file, retrieve>>
    /\ UNCHANGED chunkSide
    /\ UNCHANGED uploadSide

\* embed_index_short.py:109-115
B_WriteMeta ==
    /\ build.pc = "write_meta"
    /\ meta_file' = Some(ToParquet(Project(build.df[1], meta_cols)))
    /\ build' = [build EXCEPT !.pc = "done"]
    /\ UNCHANGED <<out, LIMIT_CHUNKS, faiss_file, retrieve>>
    /\ UNCHANGED chunkSide
    /\ UNCHANGED uploadSide

\* A plausible slip: the check that a file exists is left out.
ExistsAlways(file) == TRUE

\* Path.exists(), retrieve_short_demo.py:100 and 105
Exists(file) == file # None

\* retrieve_short_demo.py:75-103: the call, and the check that the index file
\* exists.
R_Call(queries, dedupe_fields) ==
    /\ retrieve.pc = "idle"
    /\ \E query \in queries, k \in 1..MaxK, dedupe_field \in dedupe_fields,
          candidate_multiplier \in 0..MaxMultiplier :
          retrieve' =
             [RetrieveFrame(query, k, dedupe_field, candidate_multiplier) EXCEPT
                !.pc = IF ~Exists(faiss_file) THEN "FileNotFoundError"
                       ELSE "check_meta"]
    /\ UNCHANGED <<out, LIMIT_CHUNKS, faiss_file, meta_file, build>>
    /\ UNCHANGED chunkSide
    /\ UNCHANGED uploadSide

\* A retrieval with any of the queries and of the dedupe fields.
R_Start == R_Call(Queries, DedupeFields)

\* retrieve_short_demo.py:105-108
R_CheckMeta ==
    /\ retrieve.pc = "check_meta"
    /\ retrieve' = [retrieve EXCEPT
                      !.pc = IF ~Exists(meta_file) THEN "FileNotFoundError"
                             ELSE "load_index"]
    /\ UNCHANGED <<out, LIMIT_CHUNKS, faiss_file, meta_file, build>>
    /\ UNCHANGED chunkSide
    /\ UNCHANGED uploadSide

\* retrieve_short_demo.py:114
R_LoadIndex ==
    /\ retrieve.pc = "load_index"
    /\ retrieve' = [retrieve EXCEPT !.pc = "load_meta",
                                    !.index = Some(ReadIndex(faiss_file[1]))]
    /\ UNCHANGED <<out, LIMIT_CHUNKS, faiss_file, meta_file, build>>
    /\ UNCHANGED chunkSide
    /\ UNCHANGED uploadSide

\* retrieve_short_demo.py:115
R_LoadMeta ==
    /\ retrieve.pc = "load_meta"
    /\ retrieve' = [retrieve EXCEPT !.pc = "validate",
                                    !.meta = Some(ReadParquet(meta_file[1]))]
    /\ UNCHANGED <<out, LIMIT_CHUNKS, faiss_file, meta_file, build>>
    /\ UNCHANGED chunkSide
    /\ UNCHANGED uploadSide

\* A plausible slip: the check of the dedupe field is left out.
KnownFieldAlways(dedupe_field, meta) == TRUE

\* dedupe_field in meta.columns, retrieve_short_demo.py:121
KnownField(dedupe_field, meta) == dedupe_field \in Range(meta.columns)

\* retrieve_short_demo.py:121-126
R_Validate ==
    /\ retrieve.pc = "validate"
    /\ retrieve' = [retrieve EXCEPT
                      !.pc = IF ~KnownField(retrieve.dedupe_field,
                                            retrieve.meta[1])
                             THEN "ValueError" ELSE "embed"]
    /\ UNCHANGED <<out, LIMIT_CHUNKS, faiss_file, meta_file, build>>
    /\ UNCHANGED chunkSide
    /\ UNCHANGED uploadSide

\* retrieve_short_demo.py:132-137
R_Embed ==
    /\ retrieve.pc = "embed"
    /\ retrieve' = [retrieve EXCEPT
                      !.pc = "search",
                      !.q_vec = Some(Encode(<<retrieve.query>>)[1])]
    /\ UNCHANGED <<out, LIMIT_CHUNKS, faiss_file, meta_file, build>>
    /\ UNCHANGED chunkSide
    /\ UNCHANGED uploadSide

\* retrieve_short_demo.py:144-156
R_Search ==
    /\ retrieve.pc = "search"
    /\ LET k_candidates ==
              Max(retrieve.k * retrieve.candidate_multiplier, retrieve.k)
       IN  \E order \in Rankings(retrieve.index[1], retrieve.q_vec[1]) :
              LET found == SearchResult(retrieve.index[1], retrieve.q_vec[1],
                                        k_candidates, order)
              IN  retrieve' = [retrieve EXCEPT
                                 !.pc = "walk",
                                 !.k_candidates = k_candidates,
                                 !.scores = found.scores,
                                 !.idxs = found.idxs,
                                 !.pos = 0,
                                 !.seen_keys = {},
                                 !.results = <<>>]
    /\ UNCHANGED <<out, LIMIT_CHUNKS, faiss_file, meta_file, build>>
    /\ UNCHANGED chunkSide
    /\ UNCHANGED uploadSide

\* A plausible slip: the walk drops the metadata row it has just visited.
TakenDroppingRow(f) ==
    [f EXCEPT !.pos = f.pos + 1,
              !.meta = Some([f.meta[1] EXCEPT !.rows = Tail(f.meta[1].rows)])]

\* for score, idx in zip(scores, idxs), retrieve_short_demo.py:158: the next
\* pair is taken; nothing else of the frame changes.
Taken(f) == [f EXCEPT !.pos = f.pos + 1]

\* A plausible slip: the guard against the row id -1 is left out.
IsSentinelNever(idx) == FALSE

\* idx < 0, retrieve_short_demo.py:159
IsSentinel(idx) == idx < 0

\* A plausible slip: a row id beyond the table is clamped to the last row.
IlocClamped(meta, i) ==
    LET n == Len(meta.rows) IN
    IF n = 0 THEN None
    ELSE IF i >= n THEN Some(meta.rows[n])
    ELSE IF i >= 0 THEN Some(meta.rows[i + 1])
    ELSE IF i >= -n THEN Some(meta.rows[n + i + 1])
    ELSE None

\* meta.iloc[i], retrieve_short_demo.py:162: the row at position i; pandas
\* counts a negative position from the end of the table, and raises
\* IndexError (None here) for a position outside -n..n-1.
Iloc(meta, i) ==
    LET n == Len(meta.rows) IN
    IF 0 <= i /\ i < n THEN Some(meta.rows[i + 1])
    ELSE IF -n <= i /\ i < 0 THEN Some(meta.rows[n + i + 1])
    ELSE None

\* A plausible slip: the membership test is left out.
IsDuplicateNever(key, seen_keys) == FALSE

\* key in seen_keys, retrieve_short_demo.py:168
IsDuplicate(key, seen_keys) == key \in seen_keys

\* A plausible slip: the key of an accepted row is not recorded.
MarkSeenForgotten(seen_keys, key) == seen_keys

\* seen_keys.add(key), retrieve_short_demo.py:171
MarkSeen(seen_keys, key) == seen_keys \cup {key}

\* A plausible slip: the accepted row is put in front of the results.
AcceptInFront(results, score, idx, row) == <<<<score, idx, row>>>> \o results

\* results.append((float(score), int(idx), row)), retrieve_short_demo.py:172
Accept(results, score, idx, row) == Append(results, <<score, idx, row>>)

\* A plausible slip: the walk does not stop at k results.
EnoughResultsNever(results, k) == FALSE

\* len(results) >= k, retrieve_short_demo.py:174
EnoughResults(results, k) == Len(results) >= k

\* retrieve_short_demo.py:158-175: one candidate of the walk; pos candidates
\* have been taken from zip(scores, idxs).
WalkStep(f) ==
    IF f.pos >= Len(f.idxs)
    THEN [f EXCEPT !.pc = "done"]
    ELSE LET score == f.scores[f.pos + 1]
             idx == f.idxs[f.pos + 1]
             taken == Taken(f)
         IN  IF IsSentinel(idx) THEN taken
             ELSE LET found == Iloc(taken.meta[1], idx) IN
                  IF found = None
                  THEN [taken EXCEPT !.pc = "IndexError"]
                  ELSE LET row == found[1]
                           key == KeyOf(row, f.dedupe_field)
                       IN  IF key = "" THEN taken
                           ELSE IF IsDuplicate(key, f.seen_keys) THEN taken
                           ELSE LET results ==
                                       Accept(f.results, score, idx, row)
                                IN  [taken EXCEPT
                                       !.seen_keys = MarkSeen(f.seen_keys, key),
                                       !.results = results,
                                       !.pc = IF EnoughResults(results, f.k)
                                              THEN "done" ELSE "walk"]

\* retrieve_short_demo.py:158-210: a step of the walk; the report that follows
\* it changes nothing.
R_Walk ==
    /\ retrieve.pc = "walk"
    /\ retrieve' = WalkStep(retrieve)
    /\ UNCHANGED <<out, LIMIT_CHUNKS, faiss_file, meta_file, build>>
    /\ UNCHANGED chunkSide
    /\ UNCHANGED uploadSide

---------------------------------------------------------------------------
(* The pipeline run in sequence: the stages one after the other, then a      *)
(* retrieval                                                                 *)

NextIndex ==
    \/ retrieve.pc = "idle" /\ ~BuildRunning /\ ChunkStage
    \/ retrieve.pc = "idle" /\ B_Load
    \/ retrieve.pc = "idle" /\ B_Encode
    \/ retrieve.pc = "idle" /\ B_Index
    \/ retrieve.pc = "idle" /\ B_WriteIndex
    \/ retrieve.pc = "idle" /\ B_WriteMeta
    \/ ~BuildRunning /\ R_Start
    \/ R_CheckMeta
    \/ R_LoadIndex
    \/ R_LoadMeta
    \/ R_Validate
    \/ R_Embed
    \/ R_Search
    \/ R_Walk

SpecIndex == InitIndex /\ [][NextIndex]_vars

---------------------------------------------------------------------------
(* The stages run as independent processes: nothing in the scripts keeps a   *)
(* re-run of the chunking stage or of the build from running while a         *)
(* retrieval starts. Once the retrieval has loaded both files it reads the   *)
(* disk no more, so the steps of the writers are followed up to that point.  *)

ReadsDisk == retrieve.pc \in {"idle", "check_meta", "load_index", "load_meta"}

\* The retrievals followed next to a rebuild: one query, and the dedupe fields
\* that are columns of the metadata.
R_StartKnownField == R_Call({<<"a">>}, {"doc_id", "title"})

NextRebuild ==
    \/ ReadsDisk /\ ChunkStage
    \/ ReadsDisk /\ B_Load
    \/ ReadsDisk /\ B_Encode
    \/ ReadsDisk /\ B_Index
    \/ ReadsDisk /\ B_WriteIndex
    \/ ReadsDisk /\ B_WriteMeta
    \/ R_StartKnownField
    \/ R_CheckMeta
    \/ R_LoadIndex
    \/ R_LoadMeta
    \/ R_Validate
    \/ R_Embed
    \/ R_Search
    \/ R_Walk

SpecRebuild == InitIndex /\ [][NextRebuild]_vars

---------------------------------------------------------------------------
(* The upload to BigQuery run again and again over one input file *)

\* Record p of the input file, as ingest_short.py writes it.
Record(p) ==
    [doc_id |-> "squad_v2_" \o ToString(p), title |-> "T", source |-> "squad_v2",
     text |-> "text " \o ToString(p), url |-> ""]

\* The input files: no file, the files of 0..MaxRows+1 different records, and
\* a file with the same line twice.
UploadFiles ==
    {None} \cup {Some([p \in 1..len |-> Record(p)]) : len \in 0..(MaxRows + 1)}
           \cup {Some(<<Record(1), Record(1)>>)}

\* The table before the first run: missing, empty, or holding the rows of an
\* earlier upload.
UploadTables == {None, Some(<<>>), Some(<<Record(1), Record(0)>>)}

InitUpload ==
    /\ ct = NoCall
    /\ inp = None
    /\ limit_docs = None
    /\ m = NoMain
    /\ out = None
    /\ LIMIT_CHUNKS = None
    /\ faiss_file = None
    /\ meta_file = None
    /\ build = NoBuild
    /\ retrieve = NoRetrieve
    /\ bq_src \in UploadFiles
    /\ bq_table \in UploadTables
    /\ upload = NoUpload

\* No run of the upload is in progress.
UploadEnded ==
    upload.pc \in {"idle", "done", "AssertionError", "ValueError", "RuntimeError"}

\* bq_upload_docs_short.py:91-112: a run starts; the input file must exist.
U_Start ==
    /\ UploadEnded
    /\ upload.runs < MaxRuns
    /\ \E max_rows \in 0..MaxRows, batch_size \in 0..MaxBatch :
          upload' = [UploadFrame(max_rows, batch_size, upload.runs + 1) EXCEPT
                       !.pc = IF bq_src = None THEN "AssertionError"
                              ELSE "ensure_table"]
    /\ UNCHANGED <<bq_src, bq_table, out>>
    /\ UNCHANGED chunkSide
    /\ UNCHANGED indexSide

\* bq_upload_docs_short.py:115
U_EnsureTable ==
    /\ upload.pc = "ensure_table"
    /\ bq_table' = ensure_table(bq_table)
    /\ upload' = [upload EXCEPT !.pc = "truncate_table"]
    /\ UNCHANGED <<bq_src, out>>
    /\ UNCHANGED chunkSide
    /\ UNCHANGED indexSide

\* bq_upload_docs_short.py:118
U_Truncate ==
    /\ upload.pc = "truncate_table"
    /\ bq_table' = truncate_table(bq_table)
    /\ upload' = [upload EXCEPT !.pc = "read"]
    /\ UNCHANGED <<bq_src, out>>
    /\ UNCHANGED chunkSide
    /\ UNCHANGED indexSide

\* bq_upload_docs_short.py:121-132: the rows are read and the loop over the
\* batches is set up; range() raises ValueError for a step of 0.
U_Read ==
    /\ upload.pc = "read"
    /\ upload' = [upload EXCEPT
                    !.rows = ReadRows(bq_src[1], upload.max_rows),
                    !.pc = IF upload.batch_size = 0 THEN "ValueError"
                           ELSE "insert"]
    /\ UNCHANGED <<bq_src, bq_table, out>>
    /\ UNCHANGED chunkSide
    /\ UNCHANGED indexSide

\* bq_upload_docs_short.py:132-148: one batch is inserted, or the insert
\* reports errors and the run stops; after the last batch the run ends.
U_Insert ==
    /\ upload.pc = "insert"
    /\ IF upload.start >= Len(upload.rows)
       THEN /\ upload' = [upload EXCEPT !.pc = "done"]
            /\ bq_table' = bq_table
       ELSE LET batch == Batch(upload.rows, upload.start, upload.batch_size)
            IN  \/ /\ bq_table' = InsertRowsJson(bq_table, batch)
                   /\ upload' = [upload EXCEPT
                                   !.start = upload.start + upload.batch_size,
                                   !.total_inserted =
                                       upload.total_inserted + Len(batch)]
                \/ /\ bq_table' = bq_table
                   /\ upload' = [upload EXCEPT !.pc = "RuntimeError"]
    /\ UNCHANGED <<bq_src, out>>
    /\ UNCHANGED chunkSide
    /\ UNCHANGED indexSide

NextUpload ==
    \/ U_Start
    \/ U_EnsureTable
    \/ U_Truncate
    \/ U_Read
    \/ U_Insert

SpecUpload == InitUpload /\ [][NextUpload]_vars

---------------------------------------------------------------------------
(* Properties of chunk_short.py *)

\* The configurations the chunker is specified for.
ValidCfg(f) == f.chunk_size > 0 /\ 0 <= f.overlap /\ f.overlap < f.chunk_size

\* A call is in progress or has returned.
Called(f) == f.pc \in {"entry", "while", "returned"}

\* A text of nothing but whitespace.
Blank(s) == \A p \in 1..Len(s) : s[p] \in Whitespace

\* What stripping is meant to give, stated on positions: the text without its
\* leading and its trailing run of whitespace.
Trimmed(s) ==
    IF Blank(s) THEN <<>>
    ELSE LET lead == CHOOSE k \in 0..Len(s) :
                        /\ s[k + 1] \notin Whitespace
                        /\ \A r \in 1..k : s[r] \in Whitespace
             trail == CHOOSE k \in 0..Len(s) :
                        /\ s[Len(s) - k] \notin Whitespace
                        /\ \A r \in 1..k : s[Len(s) + 1 - r] \in Whitespace
         IN  [p \in 1..(Len(s) - lead - trail) |-> s[lead + p]]

\* The positions the windows cover.
Covered(chunks) ==
    UNION {chunks[q][1]..(chunks[q][2] - 1) : q \in 1..Len(chunks)}

\* C1: a call with overlap >= chunk_size is rejected before any window is
\* produced: it never enters the windowing loop and never returns windows.
C1_BadOverlapRejected ==
    (Called(ct) /\ ct.overlap >= ct.chunk_size)
        => (ct.pc = "entry" /\ ct.chunks = <<>>)

\* C2: with chunk_size > 0 and 0 <= overlap < chunk_size the loop terminates:
\* the start strictly increases on every iteration that does not end the loop,
\* and the call returns, its last window (if the text is not blank) ending at n.
C2_LoopTerminates ==
    /\ [][(ValidCfg(ct) /\ ct.pc = "while" /\ ct'.pc = "while")
             => ct'.start > ct.start]_vars
    /\ (Called(ct) /\ ValidCfg(ct))
          ~> (/\ ct.pc = "returned"
              /\ ~Blank(ct.arg) =>
                    /\ ct.chunks # <<>>
                    /\ ct.chunks[Len(ct.chunks)][2] = Len(Trimmed(ct.arg)))

C2_Witness ==
    /\ ValidCfg(ct) /\ ct.pc = "returned" /\ Len(ct.chunks) >= 3
    /\ ct.overlap > 0

\* C3: for a text that is not empty after trimming, and a valid configuration,
\* the windows returned cover exactly [0, n): the first starts at 0, the last
\* ends at n, and no position between two consecutive windows is left out.
C3_Coverage ==
    (ct.pc = "returned" /\ ValidCfg(ct) /\ ~Blank(ct.arg)) =>
        LET n == Len(Trimmed(ct.arg)) IN
        /\ ct.chunks # <<>>
        /\ ct.chunks[1][1] = 0
        /\ ct.chunks[Len(ct.chunks)][2] = n
        /\ \A q \in 1..(Len(ct.chunks) - 1) : ct.chunks[q + 1][1] <= ct.chunks[q][2]
        /\ Covered(ct.chunks) = 0..(n - 1)

C3_Witness ==
    /\ ct.pc = "returned" /\ ValidCfg(ct) /\ Len(ct.chunks) >= 2
    /\ ct.overlap = 0 /\ Len(Trimmed(ct.arg)) > ct.chunk_size
    /\ Len(ct.arg) > Len(Trimmed(ct.arg))

\* The reference windows: start_i = i * (chunk_size - overlap) and
\* end_i = min(start_i + chunk_size, n), cut at the first i with end_i = n.
RefStart(chunk_size, overlap, i) == i * (chunk_size - overlap)
RefEnd(chunk_size, overlap, n, i) == Min(RefStart(chunk_size, overlap, i) + chunk_size, n)
RefLast(chunk_size, overlap, n) ==
    CHOOSE i \in 0..n :
        /\ RefEnd(chunk_size, overlap, n, i) = n
        /\ \A h \in 0..(i - 1) : RefEnd(chunk_size, overlap, n, h) # n

\* C4: for a valid configuration the windows are the reference sequence, so each
\* next start is the previous end minus overlap; 2000 characters with 800/150
\* give the starts 0, 650, 1300 and a last end of 2000, and "abcdefghij" with
\* 5/2 gives [0,5), [3,8), [6,10).
C4_ReferenceWindows ==
    (ct.pc = "returned" /\ ValidCfg(ct) /\ ~Blank(ct.arg)) =>
        LET n == Len(Trimmed(ct.arg))
            c == ct.chunk_size
            o == ct.overlap
        IN
        /\ Len(ct.chunks) = RefLast(c, o, n) + 1
        /\ \A q \in 1..Len(ct.chunks) :
              /\ ct.chunks[q][1] = RefStart(c, o, q - 1)
              /\ ct.chunks[q][2] = RefEnd(c, o, n, q - 1)
        /\ \A q \in 1..(Len(ct.chunks) - 1) :
              ct.chunks[q + 1][1] = ct.chunks[q][2] - o
        /\ (n = 2000 /\ c = 800 /\ o = 150) =>
              /\ [q \in 1..Len(ct.chunks) |-> ct.chunks[q][1]] = <<0, 650, 1300>>
              /\ ct.chunks[Len(ct.chunks)][2] = 2000
        /\ (ct.arg = Abcdefghij /\ c = 5 /\ o = 2) =>
              ct.chunks = << <<0, 5, <<"a", "b", "c", "d", "e">> >>,
                             <<3, 8, <<"d", "e", "f", "g", "h">> >>,
                             <<6, 10, <<"g", "h", "i", "j">> >> >>

C4_Witness ==
    /\ ct.pc = "returned" /\ ct.arg = Abcdefghij
    /\ ct.chunk_size = 5 /\ ct.overlap = 2 /\ Len(ct.chunks) = 3

\* The characters [a, b) of a text, by position.
Substring(t, a, b) == [p \in 1..(b - a) |-> t[a + p]]

\* A window of a text: its offsets are in range, its text is the substring they
\* name, and it is no longer than the chunk size.
IsWindowOf(t, a, b, c, chunk_size) ==
    /\ 0 <= a /\ a < b /\ b <= Len(t)
    /\ c = Substring(t, a, b)
    /\ b - a <= chunk_size

\* The documents main has turned into rows, and the text of one.
Processed == IF inp = None THEN {} ELSE 1..m.i
TextOf(d) == DocGet(inp[1][d], "text", <<>>)

C6_EmptyIffBlank ==
    /\ [](ct.pc = "returned" => (ct.chunks = <<>> <=> Blank(ct.arg)))
    /\ []((Called(ct) /\ ct.pc # "entry" /\ Blank(ct.arg)) => ct.pc = "returned")
    /\ [][(m.pc = "chunking" /\ m'.pc = "for") =>
             (Len(m'.rows) = Len(m.rows) <=> Blank(TextOf(m.i + 1)))]_vars

C6_Witness ==
    /\ m.pc = "done" /\ m.i = 2
    /\ Blank(TextOf(1)) /\ Len(TextOf(1)) > 0
    /\ ~Blank(TextOf(2))
    /\ Len(m.rows) = 1

\* The doc_ids of the documents main has read are pairwise distinct.
DistinctDocIds ==
    \A a, b \in Processed : a # b => inp[1][a].doc_id # inp[1][b].doc_id

\* C7: in the table the stage writes, when the doc_ids are pairwise distinct all
\* chunk_ids are pairwise distinct; each chunk_id is the doc_id, "_c" and the
\* chunk_index; and the chunk_index values of one document are 0..m-1 in window
\* order.
C7_ChunkIds ==
    out # None =>
        LET rows == ReadParquet(out[1]).rows IN
        /\ DistinctDocIds =>
              \A a, b \in 1..Len(rows) : a # b => rows[a].chunk_id # rows[b].chunk_id
        /\ \A r \in 1..Len(rows) :
              /\ rows[r].chunk_id
                    = rows[r].doc_id \o "_c" \o ToString(rows[r].chunk_index)
              /\ \/ rows[r].chunk_index = 0
                 \/ /\ r > 1
                    /\ rows[r - 1].doc_id = rows[r].doc_id
                    /\ rows[r - 1].chunk_index + 1 = rows[r].chunk_index
                    /\ rows[r - 1].char_start < rows[r].char_start
        /\ DistinctDocIds =>
              \A d \in Processed :
                  LET mine == {r \in 1..Len(rows) : rows[r].doc_id = inp[1][d].doc_id}
                  IN  {rows[r].chunk_index : r \in mine} = 0..(Cardinality(mine) - 1)

C7_Witness ==
    /\ out # None /\ m.i = 2 /\ DistinctDocIds
    /\ inp[1][1].doc_id = "d1_c0" /\ inp[1][2].doc_id = "d1"
    /\ Len(m.rows) = 4

---------------------------------------------------------------------------
(* Properties of the index build and of the retrieval *)

\* Row i of the index is the embedding of the text of row i of the metadata, and
\* the two have the same number of rows.
Aligned(index, meta) ==
    /\ index.ntotal = Len(meta.rows)
    /\ index.ntotal * index.d = Len(index.xb)
    /\ \A id \in 0..(index.ntotal - 1) :
          Reconstruct(index, id) = Embed(meta.rows[id + 1].text)

\* The retrieval has loaded the index and the metadata.
Loaded == retrieve.index # None /\ retrieve.meta # None

\* C8: after the index build the index and the saved metadata have the same
\* number of rows and row i of the index is the embedding of the text of
\* metadata row i, both being the chunk table (cut to LIMIT_CHUNKS) in its
\* order; the same holds of the pair a retrieval loads.
C8_Alignment ==
    /\ build.pc = "done" =>
          /\ faiss_file # None /\ meta_file # None
          /\ Aligned(ReadIndex(faiss_file[1]), ReadParquet(meta_file[1]))
          /\ LET meta == ReadParquet(meta_file[1]).rows
                 df == build.df[1].rows
             IN  /\ Len(meta) = Len(df)
                 /\ LIMIT_CHUNKS # None => Len(meta) <= LIMIT_CHUNKS[1]
                 /\ \A p \in 1..Len(meta) :
                       \A c \in Range(meta_cols) : meta[p][c] = df[p][c]
    /\ (faiss_file # None /\ meta_file # None /\ build.pc # "write_meta") =>
          Aligned(ReadIndex(faiss_file[1]), ReadParquet(meta_file[1]))
    /\ Loaded => Aligned(retrieve.index[1], retrieve.meta[1])

C8_Witness ==
    /\ build.pc = "done" /\ LIMIT_CHUNKS # None
    /\ Len(ReadParquet(out[1]).rows) > LIMIT_CHUNKS[1]
    /\ Loaded
    /\ retrieve.index[1].ntotal = 2
    /\ Reconstruct(retrieve.index[1], 0) # Reconstruct(retrieve.index[1], 1)

\* C9: a retrieval that has loaded an index and a metadata table of different
\* row counts fails at load time: it goes no further than the load.
C9_MismatchFailsAtLoad ==
    (Loaded /\ retrieve.index[1].ntotal # Len(retrieve.meta[1].rows)) =>
        retrieve.pc \in {"validate", "AlignmentMismatch"}

\* The keys of the results accepted so far.
ResultKeys(f) ==
    [p \in 1..Len(f.results) |-> KeyOf(f.results[p][3], f.dedupe_field)]

\* C10: the dedupe keys of the accepted results of a retrieval are pairwise
\* distinct, and during the walk the set of seen keys is the set of the keys of
\* the results accepted so far.
C10_DedupeUnique ==
    LET keys == ResultKeys(retrieve) IN
    /\ \A p, q \in 1..Len(keys) : p # q => keys[p] # keys[q]
    /\ retrieve.seen_keys = Range(keys)

C10_Witness ==
    /\ retrieve.pc = "done" /\ retrieve.dedupe_field = "doc_id"
    /\ Len(retrieve.results) = 2
    /\ retrieve.pos = 3
    /\ retrieve.idxs[1] >= 0 /\ retrieve.idxs[2] >= 0
    /\ KeyOf(retrieve.meta[1].rows[retrieve.idxs[1] + 1], "doc_id")
          = KeyOf(retrieve.meta[1].rows[retrieve.idxs[2] + 1], "doc_id")

\* The key of candidate q of the search, a candidate that has a row.
CandidateKey(f, q) ==
    KeyOf(f.meta[1].rows[f.idxs[q] + 1], f.dedupe_field)

\* The candidates that have a row with a key that is not empty.
Keyed(f) ==
    { q \in 1..Len(f.idxs) :
        /\ f.idxs[q] >= 0 /\ f.idxs[q] < Len(f.meta[1].rows)
        /\ CandidateKey(f, q) # "" }

\* The distinct keys among them.
DistinctKeys(f) == { CandidateKey(f, q) : q \in Keyed(f) }

\* C11: a retrieval never holds more than k results; it returns min(k, D)
\* results, D the number of distinct non-empty key strings among the candidates
\* that are not sentinels; when it returns k the last candidate it examined is
\* the k-th accepted one, and when it returns fewer it has examined them all and
\* ends as a success.
C11_ResultCount ==
    /\ Len(retrieve.results) <= retrieve.k
    /\ retrieve.pc \in {"walk", "done"} =>
          Len(retrieve.results) <= Cardinality(DistinctKeys(retrieve))
    /\ retrieve.pc = "done" =>
          /\ Len(retrieve.results)
                = Min(retrieve.k, Cardinality(DistinctKeys(retrieve)))
          /\ Len(retrieve.results) = retrieve.k =>
                retrieve.results[retrieve.k][2] = retrieve.idxs[retrieve.pos]
          /\ Len(retrieve.results) < retrieve.k =>
                retrieve.pos = Len(retrieve.idxs)
    /\ (retrieve.pc = "walk" /\ retrieve.pos = Len(retrieve.idxs)) =>
          WalkStep(retrieve).pc = "done"

C11_Witness ==
    /\ retrieve.pc = "done" /\ retrieve.k = 2
    /\ Len(retrieve.results) = 1
    /\ Cardinality(Keyed(retrieve)) = 3
    /\ Cardinality(DistinctKeys(retrieve)) = 1

\* The position in the candidate list of the candidate of result p.
PosOf(f, p) == CHOOSE q \in 1..Len(f.idxs) : f.idxs[q] = f.results[p][2]

\* C12: the results are a subsequence of the candidate list: each result is one
\* of the candidates examined, with that candidate's score and row id and the
\* metadata row of that id, and the results are in the order of their
\* candidates.
C12_RankOrder ==
    /\ \A p \in 1..Len(retrieve.results) :
          \E q \in 1..retrieve.pos :
             /\ retrieve.idxs[q] = retrieve.results[p][2]
             /\ retrieve.scores[q] = retrieve.results[p][1]
             /\ retrieve.meta[1].rows[retrieve.idxs[q] + 1]
                   = retrieve.results[p][3]
    /\ \A p, q \in 1..Len(retrieve.results) :
          p < q => PosOf(retrieve, p) < PosOf(retrieve, q)

C12_Witness ==
    /\ retrieve.pc = "done" /\ Len(retrieve.results) = 2
    /\ PosOf(retrieve, 1) = 1 /\ PosOf(retrieve, 2) = 3
    /\ retrieve.results[1][1] > retrieve.results[2][1]

\* C13: a retrieval whose dedupe_field is not a column of the metadata fails
\* (ValueError) right after the load, before the query is embedded and before
\* the index is searched, and produces no result; it fails in no other case.
C13_UnknownField ==
    /\ (Loaded /\ retrieve.pc # "validate"
          /\ retrieve.dedupe_field \notin Range(retrieve.meta[1].columns)) =>
          retrieve.pc = "ValueError"
    /\ retrieve.pc = "ValueError" =>
          /\ Loaded
          /\ retrieve.dedupe_field \notin Range(retrieve.meta[1].columns)
          /\ retrieve.q_vec = None
          /\ retrieve.idxs = <<>> /\ retrieve.scores = <<>>
          /\ retrieve.results = <<>>

C13_Witness ==
    /\ retrieve.pc = "ValueError" /\ retrieve.dedupe_field = "url"
    /\ Len(retrieve.meta[1].rows) = 3

\* C14: a retrieval that finds the index file or the metadata file missing
\* fails at once (FileNotFoundError): it has loaded, embedded and searched
\* nothing, and it takes no further step.
C14_MissingIndex ==
    /\ [](retrieve.pc = "FileNotFoundError" =>
            /\ retrieve.index = None /\ retrieve.meta = None
            /\ retrieve.q_vec = None
            /\ retrieve.idxs = <<>> /\ retrieve.results = <<>>)
    /\ [][/\ (retrieve.pc = "idle" /\ retrieve'.pc # "idle"
               /\ faiss_file = None) => retrieve'.pc = "FileNotFoundError"
          /\ (retrieve.pc = "check_meta" /\ retrieve'.pc # "check_meta"
               /\ meta_file = None) => retrieve'.pc = "FileNotFoundError"
          /\ retrieve.pc = "FileNotFoundError" => retrieve' = retrieve]_vars

C14_Witness ==
    /\ retrieve.pc = "FileNotFoundError"
    /\ faiss_file # None /\ meta_file = None

\* C15: a retrieval changes neither the index file nor the metadata file, and
\* the index and the metadata it has loaded stay what the files hold, on every
\* path of the retrieval.
C15_ReadOnly ==
    /\ [](Loaded =>
            /\ retrieve.index[1] = ReadIndex(faiss_file[1])
            /\ retrieve.meta[1] = ReadParquet(meta_file[1]))
    /\ [][retrieve'.pc # "idle" =>
            /\ faiss_file' = faiss_file /\ meta_file' = meta_file
            /\ retrieve.index # None => retrieve'.index = retrieve.index
            /\ retrieve.meta # None => retrieve'.meta = retrieve.meta]_vars

C15_Witness ==
    /\ retrieve.pc = "done" /\ Len(retrieve.results) = 2 /\ retrieve.pos = 2
    /\ retrieve.index[1] = ReadIndex(faiss_file[1])
    /\ retrieve.meta[1] = ReadParquet(meta_file[1])
    /\ retrieve.index[1].ntotal = 3

\* The walk has a next candidate, and its row id is idx.
NextCandidate(f) == f.idxs[f.pos + 1]
AtCandidate(f) == f.pc = "walk" /\ f.pos < Len(f.idxs)

Absent(row, field) ==
    IF field \notin DOMAIN row THEN TRUE
    ELSE IF field \in {"chunk_index", "char_start", "char_end"} THEN FALSE
    ELSE IF field = "title" THEN row[field] = None \/ row[field] = Some("")
    ELSE row[field] = ""

\* C18: a candidate whose dedupe-field value is empty, missing or null is
\* skipped: no result has such a value, and the step over such a candidate
\* leaves the results and the seen keys as they are.
C18_AbsentKeySkipped ==
    /\ \A p \in 1..Len(retrieve.results) :
          ~Absent(retrieve.results[p][3], retrieve.dedupe_field)
    /\ (/\ AtCandidate(retrieve)
        /\ NextCandidate(retrieve) >= 0
        /\ NextCandidate(retrieve) < Len(retrieve.meta[1].rows)
        /\ Absent(retrieve.meta[1].rows[NextCandidate(retrieve) + 1],
                  retrieve.dedupe_field)) =>
          /\ WalkStep(retrieve).results = retrieve.results
          /\ WalkStep(retrieve).seen_keys = retrieve.seen_keys

\* C19: a candidate with the row id -1 is skipped before the metadata lookup:
\* no result has a negative row id, and the step over such a candidate only
\* moves on to the next candidate; it neither ends the walk nor adds a result
\* or a key.
C19_SentinelSkipped ==
    /\ \A p \in 1..Len(retrieve.results) : retrieve.results[p][2] >= 0
    /\ (AtCandidate(retrieve) /\ NextCandidate(retrieve) < 0) =>
          WalkStep(retrieve) = [retrieve EXCEPT !.pos = retrieve.pos + 1]

C19_Witness ==
    /\ retrieve.pc = "done" /\ retrieve.pos = 4
    /\ retrieve.idxs[2] >= 0
    /\ retrieve.idxs[3] = -1 /\ retrieve.idxs[4] = -1
    /\ Len(retrieve.results) = 1 /\ retrieve.k = 2

\* C20: each result is the first candidate of its key: no earlier candidate
\* has the key of a result, and every non-empty key among the candidates
\* examined is the key of a result that is that candidate or an earlier one.
C20_FirstOfKey ==
    /\ \A p \in 1..Len(retrieve.results) :
          LET q == PosOf(retrieve, p) IN
          \A e \in 1..(q - 1) :
             retrieve.idxs[e] >= 0 =>
                CandidateKey(retrieve, e) # CandidateKey(retrieve, q)
    /\ \A q \in Keyed(retrieve) :
          q <= retrieve.pos =>
             \E p \in 1..Len(retrieve.results) :
                /\ PosOf(retrieve, p) <= q
                /\ CandidateKey(retrieve, PosOf(retrieve, p))
                      = CandidateKey(retrieve, q)

C20_Witness ==
    /\ retrieve.pc = "done" /\ Len(retrieve.results) = 2
    /\ PosOf(retrieve, 1) = 1 /\ PosOf(retrieve, 2) = 3
    /\ 2 \in Keyed(retrieve)
    /\ CandidateKey(retrieve, 2) = CandidateKey(retrieve, 1)

---------------------------------------------------------------------------
(* Properties of the upload to BigQuery *)

\* The number of times x occurs in the sequence rows.
Occurrences(rows, x) == Cardinality({p \in 1..Len(rows) : rows[p] = x})

\* Two sequences hold the same rows the same number of times.
SameRows(a, b) ==
    /\ Len(a) = Len(b)
    /\ \A x \in Range(a) \cup Range(b) : Occurrences(a, x) = Occurrences(b, x)

\* C17: after every successful run of the upload, the first or a later one,
\* the table holds exactly the first max_rows records of the input file, each
\* as often as the file has it; and during the inserts of a run the table holds
\* only rows that run has inserted: the truncation is complete before the first
\* insert.
C17_UploadIdempotent ==
    /\ upload.pc = "done" =>
          /\ bq_table # None
          /\ SameRows(bq_table[1], ReadRows(bq_src[1], upload.max_rows))
          /\ upload.total_inserted = Len(bq_table[1])
    /\ upload.pc = "insert" =>
          /\ bq_table # None
          /\ SameRows(bq_table[1],
                      Slice(upload.rows, 0, upload.start))
    /\ upload.pc = "read" => bq_table = Some(<<>>)

C17_Witness ==
    /\ upload.pc = "done" /\ upload.runs = 2
    /\ upload.batch_size = 1 /\ upload.max_rows = 2
    /\ Len(bq_src[1]) = 3
    /\ Len(bq_table[1]) = 2

---------------------------------------------------------------------------
(* Properties of a retrieval next to a rebuild *)

\* C21: with a retrieval interleaved with a rebuild, whenever both files are on
\* disk they have the same number of rows and describe the same chunks row for
\* row, and so do the index and the metadata a retrieval has loaded: they come
\* from one build.
C21_SameBuild ==
    /\ (Exists(faiss_file) /\ Exists(meta_file)) =>
          LET index == ReadIndex(faiss_file[1])
              meta == ReadParquet(meta_file[1])
          IN  /\ index.ntotal = Len(meta.rows)
              /\ Aligned(index, meta)
    /\ Loaded =>
          /\ retrieve.index[1].ntotal = Len(retrieve.meta[1].rows)
          /\ Aligned(retrieve.index[1], retrieve.meta[1])

=============================================================================
